---- MODULE Spec2Model ----
(***************************************************************************)
(* The incident-report bot of src/bot.py as a state machine: the           *)
(* conversation state of every user, the report and the assistant history  *)
(* kept in user_data, the administrator roster kept in admins.txt, and one *)
(* action per handler of the ConversationHandler of main().                *)
(*                                                                         *)
(* Text.  A message is a sequence of characters, one string per character  *)
(* of the source text.  The module is ASCII, so a Cyrillic letter is       *)
(* written by its transliteration ("u", "l", "zh", "sch", a capital as     *)
(* "U", "L", "Zh", "Sch"), a Latin letter as "lata" .. "latz" and          *)
(* "latA" .. "latZ", a character outside both alphabets and ASCII by its   *)
(* code point ("U+2699"), and every other character by itself.  Two        *)
(* different characters of the source are two different strings here, so   *)
(* the substring tests, lower(), upper(), int() and the phone patterns     *)
(* work on the model text as they do on the source text.                   *)
(***************************************************************************)
EXTENDS Naturals, Integers, Sequences, FiniteSets, TLC

-----------------------------------------------------------------------------
(* Characters and strings *)

UpperChars ==
    << "A", "B", "V", "G", "D", "E", "Yo", "Zh", "Z", "I", "J", "K",
       "L", "M", "N", "O", "P", "R", "S", "T", "U", "F", "H", "C", "Ch",
       "Sh", "Sch", "Hard", "Y", "Q", "Eh", "Yu", "Ya", "latA", "latB",
       "latC", "latD", "latE", "latF", "latG", "latH", "latI", "latJ",
       "latK", "latL", "latM", "latN", "latO", "latP", "latQ", "latR",
       "latS", "latT", "latU", "latV", "latW", "latX", "latY", "latZ" >>

LowerChars ==
    << "a", "b", "v", "g", "d", "e", "yo", "zh", "z", "i", "j", "k",
       "l", "m", "n", "o", "p", "r", "s", "t", "u", "f", "h", "c", "ch",
       "sh", "sch", "hard", "y", "q", "eh", "yu", "ya", "lata", "latb",
       "latc", "latd", "late", "latf", "latg", "lath", "lati", "latj",
       "latk", "latl", "latm", "latn", "lato", "latp", "latq", "latr",
       "lats", "latt", "latu", "latv", "latw", "latx", "laty", "latz" >>

Digits == << "0", "1", "2", "3", "4", "5", "6", "7", "8", "9" >>

\* The characters \s of a pattern and str.strip() take for white space.
Whitespace == { " " }

Range(s) == { s[i] : i \in 1..Len(s) }

\* The first index of c in s, 0 when c is not in s.
IndexOf(c, s) ==
    IF \E i \in 1..Len(s) : s[i] = c
        THEN CHOOSE i \in 1..Len(s) :
                 s[i] = c /\ \A j \in 1..(i - 1) : s[j] # c
        ELSE 0

\* The lower-case character of each upper-case one, and the reverse.
LowerOf == [c \in Range(UpperChars) |-> LowerChars[IndexOf(c, UpperChars)]]

UpperOf == [c \in Range(LowerChars) |-> UpperChars[IndexOf(c, LowerChars)]]

UpperSet == Range(UpperChars)

LowerSet == Range(LowerChars)

LowerChar(c) == IF c \in UpperSet THEN LowerOf[c] ELSE c

UpperChar(c) == IF c \in LowerSet THEN UpperOf[c] ELSE c

\* str.lower() and str.upper().
lower(s) == [i \in 1..Len(s) |-> LowerChar(s[i])]

upper(s) == [i \in 1..Len(s) |-> UpperChar(s[i])]

\* Python's `sub in s` on strings.
Contains(sub, s) ==
    \E i \in 1..(Len(s) - Len(sub) + 1) : SubSeq(s, i, i + Len(sub) - 1) = sub

\* any(word in s for word in words).
ContainsAny(words, s) == \E w \in words : Contains(w, s)

\* The value of each digit.
ValueOf == [c \in Range(Digits) |-> IndexOf(c, Digits) - 1]

DigitSet == Range(Digits)

IsDigit(c) == c \in DigitSet

DigitValue(c) == ValueOf[c]

\* str.strip().
RECURSIVE lstrip(_)
lstrip(s) == IF s # << >> /\ Head(s) \in Whitespace THEN lstrip(Tail(s)) ELSE s

RECURSIVE rstrip(_)
rstrip(s) == IF s # << >> /\ s[Len(s)] \in Whitespace
                THEN rstrip(SubSeq(s, 1, Len(s) - 1))
                ELSE s

strip(s) == rstrip(lstrip(s))

\* The value of a non-empty sequence of digits, most significant first.
RECURSIVE DigitsValue(_)
DigitsValue(ds) ==
    IF ds = << >> THEN 0
                  ELSE 10 * DigitsValue(SubSeq(ds, 1, Len(ds) - 1))
                       + DigitValue(ds[Len(ds)])

AllDigits(s) == s # << >> /\ \A i \in 1..Len(s) : IsDigit(s[i])

\* Whether int(s) returns (otherwise it raises ValueError): an optional sign
\* and decimal digits.
IsInt(s) ==
    \/ AllDigits(s)
    \/ Len(s) >= 2 /\ s[1] \in { "+", "-" } /\ AllDigits(Tail(s))

\* int(s), for s with IsInt(s).
IntOf(s) ==
    IF s[1] = "-" THEN 0 - DigitsValue(Tail(s))
    ELSE IF s[1] = "+" THEN DigitsValue(Tail(s))
    ELSE DigitsValue(s)

-----------------------------------------------------------------------------
(* Texts of the source *)

\* The mode keyboard of start (src/bot.py:309-313).
BTN_AI ==
    << "U+1F916", " ", "O", "b", "sch", "a", "t", "q", "s", "ya", " ",
       "s", " ", "latA", "latI", "-", "p", "o", "m", "o", "sch", "n",
       "i", "k", "o", "m" >>

BTN_FORM ==
    << "U+1F4CB", " ", "Z", "a", "p", "o", "l", "n", "i", "t", "q", " ",
       "p", "o", " ", "sh", "a", "g", "a", "m" >>

BTN_ADMIN ==
    << "U+2699", "U+FE0F", " ", "U", "p", "r", "a", "v", "l", "e", "n",
       "i", "e", " ", "a", "d", "m", "i", "n", "i", "s", "t", "r", "a",
       "t", "o", "r", "a", "m", "i" >>

\* The keyboard of admin_menu (src/bot.py:389-394).
BTN_ADD ==
    << "U+2795", " ", "D", "o", "b", "a", "v", "i", "t", "q", " ", "a",
       "d", "m", "i", "n", "i", "s", "t", "r", "a", "t", "o", "r", "a" >>

BTN_REMOVE ==
    << "U+2796", " ", "U", "d", "a", "l", "i", "t", "q", " ", "a", "d",
       "m", "i", "n", "i", "s", "t", "r", "a", "t", "o", "r", "a" >>

BTN_LIST ==
    << "U+1F4CB", " ", "S", "p", "i", "s", "o", "k", " ", "a", "d", "m",
       "i", "n", "i", "s", "t", "r", "a", "t", "o", "r", "o", "v" >>

BTN_BACK ==
    << "U+25C0", "U+FE0F", " ", "V", "e", "r", "n", "u", "t", "q", "s",
       "ya", " ", "n", "a", "z", "a", "d" >>

\* The keyboard under the summary (src/bot.py:627-630 and 725-728).
BTN_CONFIRM ==
    << "U+2705", " ", "P", "o", "d", "t", "v", "e", "r", "d", "i", "t",
       "q", " ", "i", " ", "o", "t", "p", "r", "a", "v", "i", "t", "q" >>

BTN_CANCEL ==
    << "U+274C", " ", "O", "t", "m", "e", "n", "i", "t", "q" >>

\* The commands: the entry point, the fallback, and the one the reply of ai_chat
\* tells the user to write (src/bot.py:827, 841, 679).
CMD_START ==
    << "/", "lats", "latt", "lata", "latr", "latt" >>

CMD_CANCEL ==
    << "/", "latc", "lata", "latn", "latc", "late", "latl" >>

CMD_FINISH ==
    << "/", "latf", "lati", "latn", "lati", "lats", "lath" >>

\* The substrings choose_mode, admin_menu_handler and confirm_application look
\* for (src/bot.py:350, 353, 414, 425, 444, 745).
MARK_GEAR ==
    << "U+2699", "U+FE0F" >>

MARK_ROBOT ==
    << "U+1F916" >>

MARK_AI ==
    << "latA", "latI" >>

MARK_PLUS ==
    << "U+2795" >>

MARK_MINUS ==
    << "U+2796" >>

MARK_LIST ==
    << "U+1F4CB" >>

MARK_CHECK ==
    << "U+2705" >>

\* The finish triggers of ai_chat (src/bot.py:648).
finish_triggers ==
    { CMD_FINISH,
      << "z", "a", "v", "e", "r", "sh", "i", "t", "q" >>,
      << "z", "a", "k", "o", "n", "ch", "i", "t", "q" >>,
      << "g", "o", "t", "o", "v", "o" >> }

\* The keywords of extract_info_from_message (src/bot.py:187-198, 205-208,
\* 214-224, 232-237).
address_keywords ==
    { << "u", "l", "i", "c", "a" >>,
      << "u", "l", "." >>,
      << "p", "r", "o", "s", "p", "e", "k", "t" >>,
      << "p", "r", "." >>,
      << "p", "e", "r", "e", "u", "l", "o", "k" >>,
      << "p", "e", "r", "." >>,
      << "p", "l", "o", "sch", "a", "d", "q" >>,
      << "sh", "o", "s", "s", "e" >>,
      << "d", "o", "m" >>,
      << "d", "." >> }

KW_DVA ==
    << "d", "v", "a" >>

KW_TRI ==
    << "t", "r", "i" >>

KW_2 ==
    << "2" >>

KW_3 ==
    << "3" >>

damage_keywords ==
    { << "b", "a", "m", "p", "e", "r" >>,
      << "f", "a", "r", "a" >>,
      << "k", "r", "y", "l", "o" >>,
      << "d", "v", "e", "r", "q" >>,
      << "k", "a", "p", "o", "t" >>,
      << "p", "o", "v", "r", "e", "zh", "d", "e", "n", "i", "e" >>,
      << "c", "a", "r", "a", "p", "i", "n", "a" >>,
      << "v", "m", "ya", "t", "i", "n", "a" >>,
      << "r", "a", "z", "b", "i", "t" >> }

KW_NET_POSTRADAVSHIH ==
    << "n", "e", "t", " ", "p", "o", "s", "t", "r", "a", "d", "a", "v",
       "sh", "i", "h" >>

KW_NIKTO_NE_POSTRADAL ==
    << "n", "i", "k", "t", "o", " ", "n", "e", " ", "p", "o", "s", "t",
       "r", "a", "d", "a", "l" >>

KW_POSTRADAL ==
    << "p", "o", "s", "t", "r", "a", "d", "a", "l" >>

KW_RANEN ==
    << "r", "a", "n", "e", "n" >>

\* The literals extract_info_from_message stores (src/bot.py:206, 209, 235, 238).
LIT_2_AVTOMOBILYA ==
    << "2", " ", "a", "v", "t", "o", "m", "o", "b", "i", "l", "ya" >>

LIT_3_AVTOMOBILYA ==
    << "3", " ", "a", "v", "t", "o", "m", "o", "b", "i", "l", "ya" >>

LIT_NET_POSTRADAVSHIH ==
    << "N", "e", "t", " ", "p", "o", "s", "t", "r", "a", "d", "a", "v",
       "sh", "i", "h" >>

LIT_EST_POSTRADAVSHIE ==
    << "E", "s", "t", "q", " ", "p", "o", "s", "t", "r", "a", "d", "a",
       "v", "sh", "i", "e" >>

\* The names finish_ai_application gives the missing fields (src/bot.py:690, 692).
MISSING_MESTO_DTP ==
    << "m", "e", "s", "t", "o", " ", "D", "T", "P" >>

MISSING_TELEFON ==
    << "t", "e", "l", "e", "f", "o", "n" >>

\* Messages a user may send.
MSG_ADDR_PHONE ==
    << "U", "l", ".", " ", "L", "e", "n", "i", "n", "a", " ", "5", ",",
       " ", "+", "7", "9", "0", "0", "1", "2", "3", "4", "5", "6", "7" >>

MSG_ADDR ==
    << "u", "l", ".", " ", "L", "e", "n", "i", "n", "a", " ", "5" >>

MSG_DAMAGE ==
    << "R", "a", "z", "b", "i", "t", "a", " ", "f", "a", "r", "a", ",",
       " ", "n", "i", "k", "t", "o", " ", "n", "e", " ", "p", "o", "s",
       "t", "r", "a", "d", "a", "l" >>

MSG_PRIVET ==
    << "P", "r", "i", "v", "e", "t" >>

MSG_GOTOVO ==
    << "G", "o", "t", "o", "v", "o" >>

MSG_PHONE8 ==
    << "8", " ", "9", "0", "0", " ", "1", "2", "3", "-", "4", "5", "-",
       "6", "7" >>

MSG_EXAMPLE ==
    << "a", "v", "a", "r", "i", "ya", " ", "n", "a", " ", "u", "l", "i",
       "c", "e", " ", "L", "e", "n", "i", "n", "a", ",", " ", "d", "v",
       "a", " ", "a", "v", "t", "o", "m", "o", "b", "i", "l", "ya", ",",
       " ", "n", "i", "k", "t", "o", " ", "n", "e", " ", "p", "o", "s",
       "t", "r", "a", "d", "a", "l", ",", " ", "+", "7", "9", "0", "0",
       "1", "2", "3", "4", "5", "6", "7" >>

MSG_ID_5 ==
    << "5" >>

MSG_ID_7 ==
    << " ", "7", " " >>

MSG_ID_42 ==
    << "4", "2" >>

MSG_NOT_ID ==
    << "lati", "latd", "7" >>

-----------------------------------------------------------------------------
(* The phone patterns of extract_info_from_message *)

\* The class [\s-] of the patterns.
IsSep(c) == c \in Whitespace \cup { "-" }

\* \d{n} at index i of s: the index after the digits, 0 when they are not there.
DigitsAt(s, i, n) ==
    IF i >= 1 /\ i + n - 1 <= Len(s) /\ \A k \in i..(i + n - 1) : IsDigit(s[k])
        THEN i + n
        ELSE 0

\* The groups of digits of a pattern from index i of s, each after [\s-]? when
\* sep holds: the index after the last group, 0 when they do not match.  A
\* separator and a digit are different characters, so taking the separator
\* when it is there is the only way the group can match.
RECURSIVE GroupsAt(_, _, _, _)
GroupsAt(s, i, groups, sep) ==
    IF groups = << >> THEN i
    ELSE LET j == IF sep /\ i <= Len(s) /\ IsSep(s[i]) THEN i + 1 ELSE i
             k == DigitsAt(s, j, Head(groups))
         IN  IF k = 0 THEN 0 ELSE GroupsAt(s, k, Tail(groups), sep)

\* \+7[\s-]?\d{3}[\s-]?\d{3}[\s-]?\d{2}[\s-]?\d{2}, the same after 8, and \d{11}.
phone_patterns ==
    << [prefix |-> << "+", "7" >>, groups |-> << 3, 3, 2, 2 >>, sep |-> TRUE],
       [prefix |-> << "8" >>, groups |-> << 3, 3, 2, 2 >>, sep |-> TRUE],
       [prefix |-> << >>, groups |-> << 11 >>, sep |-> FALSE] >>

\* The index after a match of pattern p that starts at index i of s, 0 when
\* there is none.
MatchAt(p, s, i) ==
    IF i + Len(p.prefix) - 1 <= Len(s)
       /\ SubSeq(s, i, i + Len(p.prefix) - 1) = p.prefix
        THEN GroupsAt(s, i + Len(p.prefix), p.groups, p.sep)
        ELSE 0

MatchStarts(p, s) == { i \in 1..Len(s) : MatchAt(p, s, i) # 0 }

\* re.search(p, s): << >> for None, otherwise << match.group() >>, the
\* leftmost match.
search(p, s) ==
    IF MatchStarts(p, s) = { } THEN << >>
    ELSE LET i == CHOOSE k \in MatchStarts(p, s) :
                      \A m \in MatchStarts(p, s) : k <= m
         IN  << SubSeq(s, i, MatchAt(p, s, i) - 1) >>

\* The loop over phone_patterns from pattern n on: the match of the first
\* pattern that matches, << >> when none does.
RECURSIVE first_phone(_, _)
first_phone(message, n) ==
    IF n > Len(phone_patterns) THEN << >>
    ELSE IF search(phone_patterns[n], message) # << >>
             THEN search(phone_patterns[n], message)
             ELSE first_phone(message, n + 1)

-----------------------------------------------------------------------------
(* The report *)

\* Python's None, as a field value: no message is this sequence.
None == << "None" >>

\* Python's truth of a field value: None and the empty string are false.
Truthy(x) == x # None /\ x # << >>

\* The five fields of the report, in the order extract_info_from_message
\* fills them.
FieldOrder == << "location", "participants", "damage", "injuries", "contact" >>

Fields == Range(FieldOrder)

\* What extract_info_from_message stores in field f when the field is not
\* set yet, for a message and its lower case: << >> for nothing, otherwise
\* << value >>.
field_rule(f, message, message_lower) ==
    CASE f = "location" ->
             IF ContainsAny(address_keywords, message_lower)
                 THEN << message >> ELSE << >>
      [] f = "participants" ->
             IF Contains(KW_DVA, message_lower) \/ Contains(KW_2, message)
                 THEN << LIT_2_AVTOMOBILYA >>
             ELSE IF Contains(KW_TRI, message_lower) \/ Contains(KW_3, message)
                 THEN << LIT_3_AVTOMOBILYA >>
             ELSE << >>
      [] f = "damage" ->
             IF ContainsAny(damage_keywords, message_lower)
                 THEN << message >> ELSE << >>
      [] f = "injuries" ->
             IF Contains(KW_NET_POSTRADAVSHIH, message_lower)
                \/ Contains(KW_NIKTO_NE_POSTRADAL, message_lower)
                 THEN << LIT_NET_POSTRADAVSHIH >>
             ELSE IF Contains(KW_POSTRADAL, message_lower)
                     \/ Contains(KW_RANEN, message_lower)
                 THEN << LIT_EST_POSTRADAVSHIE >>
             ELSE << >>
      [] f = "contact" -> first_phone(message, 1)

\* extract_info_from_message without its `not application.get(field)` tests.
extract_info_overwriting(message, application) ==
    LET message_lower == lower(message)
        found == [f \in Fields |-> field_rule(f, message, message_lower)]
    IN  [application |->
             [k \in DOMAIN application |->
                 IF k \in Fields /\ found[k] # << >> THEN found[k][1]
                                                     ELSE application[k]],
         updated |-> SelectSeq(FieldOrder, LAMBDA f : found[f] # << >>)]

\* extract_info_from_message: the report after the call and the keys of
\* `updated`, in the order they were inserted.  A field is looked at only
\* when `not application.get(field)`.
extract_info_from_message(message, application) ==
    LET message_lower == lower(message)
        found == [f \in Fields |->
                     IF ~Truthy(application[f])
                         THEN field_rule(f, message, message_lower)
                         ELSE << >>]
    IN  [application |->
             [k \in DOMAIN application |->
                 IF k \in Fields /\ found[k] # << >> THEN found[k][1]
                                                     ELSE application[k]],
         updated |-> SelectSeq(FieldOrder, LAMBDA f : found[f] # << >>)]

-----------------------------------------------------------------------------
(* The state *)

\* Telegram ids: the users who talk to the bot, and the ids a roster may hold.
Users == { 7, 42 }

Ids == { 5, 7, 42 }

\* The user whose turns Spec and SpecExtract follow through every handler;
\* SpecAdmin follows every user of Users through the admin handlers.
Reporters == { 7 }

\* The assisted-interview turns explored in one session.
MaxAiTurns == 1

\* The calls of start() explored in one run.
MaxClock == 2

\* conversation_history[-10:] of get_ai_response.
CONTEXT_TURNS == 10

\* The states of the ConversationHandler; IDLE is a user with no conversation
\* yet, END is ConversationHandler.END.
IDLE == "IDLE"
CHOOSING_MODE == "CHOOSING_MODE"
LOCATION == "LOCATION"
PARTICIPANTS == "PARTICIPANTS"
DAMAGE == "DAMAGE"
INJURIES == "INJURIES"
CONTACT == "CONTACT"
AI_CHAT == "AI_CHAT"
CONFIRM == "CONFIRM"
ADMIN_MENU == "ADMIN_MENU"
ADMIN_ADD == "ADMIN_ADD"
ADMIN_REMOVE == "ADMIN_REMOVE"
END == "END"

VARIABLES
    admins_txt,     \* the lines of admins.txt (no file: no lines)
    openai_client,  \* whether OpenAI(...) returned a client at import
    state,          \* the conversation state of each user
    application,    \* user_data["application"] of each user
    ai_history,     \* user_data["ai_history"] of each user
    clock,          \* datetime.now() as start() reads it: it only grows
    everAdmin,      \* the users the roster has held at some time
    last            \* the turn just handled: its input and what it sent

vars == << admins_txt, openai_client, state, application, ai_history, clock,
           everAdmin, last >>

\* The sequences without repetition over a set.
RECURSIVE Orderings(_)
Orderings(S) ==
    IF S = { } THEN { << >> }
    ELSE UNION { { << x >> \o s : s \in Orderings(S \ { x }) } : x \in S }

Rosters == UNION { Orderings(S) : S \in SUBSET Ids }

\* The report start() stores; user_data before the first start() holds none,
\* which is this record with timestamp 0.
new_application(timestamp) ==
    [timestamp |-> timestamp, location |-> None, participants |-> None,
     damage |-> None, injuries |-> None, photos_count |-> 0,
     contact |-> None]

-----------------------------------------------------------------------------
(* The roster *)

\* load_admins: the lines of the file; without a file, ADMIN_IDS, which is
\* empty.
load_admins(file) == file

\* What a write of admins.txt does: "ok" writes every line, "open_fails" fails
\* before the file is opened and leaves it, "write_fails" fails after open()
\* truncated it and before the buffered lines reached it.
SaveOutcomes == { "ok", "open_fails", "write_fails" }

\* save_admins keeping the last line only: what was loaded is lost.
save_admins_last_only(admins, file, io) ==
    [ok |-> io = "ok",
     file |-> CASE io = "ok" -> SubSeq(admins, Len(admins), Len(admins))
                [] io = "open_fails" -> file
                [] io = "write_fails" -> << >>]

\* save_admins: the value returned and the file afterwards.
save_admins(admins, file, io) ==
    [ok |-> io = "ok",
     file |-> CASE io = "ok" -> admins
                [] io = "open_fails" -> file
                [] io = "write_fails" -> << >>]

\* is_admin letting everybody in while the roster is empty.
is_admin_open_when_empty(user_id, file) ==
    load_admins(file) = << >> \/ user_id \in Range(load_admins(file))

is_admin(user_id, file) == user_id \in Range(load_admins(file))

\* list.remove(x): the list without the first x.
remove(admins, x) ==
    LET i == IndexOf(x, admins)
    IN  SubSeq(admins, 1, i - 1) \o SubSeq(admins, i + 1, Len(admins))

-----------------------------------------------------------------------------
(* The handlers.  A handler takes the turn so far (the user's conversation  *)
(* state and user_data, the file, the clock, and what the turn has sent)    *)
(* and returns the turn after it.                                           *)

\* A turn of user u before its handler runs.  raise_at is the call of
\* reply_text that raises in this turn (0: none does), raised whether it has.
turn(u) ==
    [state |-> state[u], application |-> application[u],
     ai_history |-> ai_history[u], admins |-> admins_txt, clock |-> clock,
     replies |-> << >>, missing |-> << >>, updated |-> << >>,
     request |-> << >>, attempts |-> << >>, delivered |-> << >>,
     errors |-> << >>, logged |-> << >>, raise_at |-> 0,
     raised |-> FALSE]

\* update.message.reply_text: the replies of a turn, each named by its text.
\* The call that raises sends nothing and ends the handler: what the code
\* has after it is not run.
reply_text(r, text) ==
    IF r.raised THEN r
    ELSE IF Len(r.replies) + 1 = r.raise_at THEN [r EXCEPT !.raised = TRUE]
    ELSE [r EXCEPT !.replies = Append(@, text)]

\* The return of a handler: the ConversationHandler stores the state returned;
\* a handler that raised returns none and the state stays.
returns(r, next_state) ==
    IF r.raised THEN r ELSE [r EXCEPT !.state = next_state]

\* start keeping the fields of the report and the history it finds, with a
\* new timestamp only.
start_keeping_context(u, r) ==
    returns(
        reply_text(
            [r EXCEPT !.application = [@ EXCEPT !.timestamp = r.clock + 1],
                      !.clock = r.clock + 1],
            IF is_admin(u, r.admins) THEN "welcome, with admin choice"
                                     ELSE "welcome"),
        CHOOSING_MODE)

\* start.
start(u, r) ==
    returns(
        reply_text(
            [r EXCEPT !.application = new_application(r.clock + 1),
                      !.ai_history = << >>,
                      !.clock = r.clock + 1],
            IF is_admin(u, r.admins) THEN "welcome, with admin choice"
                                     ELSE "welcome"),
        CHOOSING_MODE)

\* admin_menu.
admin_menu(u, r) ==
    IF ~is_admin(u, r.admins)
        THEN returns(reply_text(r, "no access"), END)
        ELSE returns(reply_text(r, "admin menu"), ADMIN_MENU)

\* choose_mode.
choose_mode(u, choice, r) ==
    IF Contains(MARK_GEAR, choice) /\ is_admin(u, r.admins)
        THEN admin_menu(u, r)
    ELSE IF Contains(MARK_ROBOT, choice) \/ Contains(MARK_AI, upper(choice))
        THEN returns(reply_text(r, "talk freely"), AI_CHAT)
    ELSE returns(reply_text(r, "step 1/5"), LOCATION)

\* admin_menu_handler.
admin_menu_handler(u, choice, r) ==
    IF Contains(MARK_PLUS, choice)
        THEN returns(reply_text(r, "send id to add"), ADMIN_ADD)
    ELSE IF Contains(MARK_MINUS, choice)
        THEN IF load_admins(r.admins) = << >>
                 THEN returns(reply_text(r, "nobody to remove"), END)
                 ELSE returns(reply_text(r, "send id to remove"), ADMIN_REMOVE)
    ELSE IF Contains(MARK_LIST, choice)
        THEN admin_menu(u, reply_text(r, "admin list"))
    ELSE start(u, r)

\* admin_add_handler without its test that the id is new.
admin_add_handler_no_test(u, text, io, r) ==
    IF ~IsInt(strip(text))
        THEN returns(reply_text(r, "id must be a number"), ADMIN_ADD)
    ELSE LET new_admin_id == IntOf(strip(text))
             admins == load_admins(r.admins)
             saved == save_admins(Append(admins, new_admin_id), r.admins, io)
         IN  admin_menu(u,
                 reply_text([r EXCEPT !.admins = saved.file],
                            IF saved.ok THEN "added" ELSE "save failed"))

\* admin_add_handler; io is what the write does if the handler saves.
admin_add_handler(u, text, io, r) ==
    IF ~IsInt(strip(text))
        THEN returns(reply_text(r, "id must be a number"), ADMIN_ADD)
    ELSE LET new_admin_id == IntOf(strip(text))
             admins == load_admins(r.admins)
         IN  IF new_admin_id \in Range(admins)
                 THEN admin_menu(u, reply_text(r, "already an admin"))
             ELSE LET saved == save_admins(Append(admins, new_admin_id),
                                           r.admins, io)
                  IN  admin_menu(u,
                          reply_text([r EXCEPT !.admins = saved.file],
                                     IF saved.ok THEN "added"
                                                 ELSE "save failed"))

\* admin_remove_handler refusing every removal of the caller, whatever the
\* length of the roster.
admin_remove_handler_no_self(u, text, io, r) ==
    IF ~IsInt(strip(text))
        THEN returns(reply_text(r, "id must be a number"), ADMIN_REMOVE)
    ELSE LET remove_admin_id == IntOf(strip(text))
             admins == load_admins(r.admins)
         IN  IF remove_admin_id \notin Range(admins)
                 THEN admin_menu(u, reply_text(r, "not an admin"))
             ELSE IF remove_admin_id = u
                 THEN admin_menu(u, reply_text(r, "cannot remove last admin"))
             ELSE LET saved == save_admins(remove(admins, remove_admin_id),
                                           r.admins, io)
                  IN  admin_menu(u,
                          reply_text([r EXCEPT !.admins = saved.file],
                                     IF saved.ok THEN "removed"
                                                 ELSE "save failed"))

\* admin_remove_handler; io is what the write does if the handler saves.
admin_remove_handler(u, text, io, r) ==
    IF ~IsInt(strip(text))
        THEN returns(reply_text(r, "id must be a number"), ADMIN_REMOVE)
    ELSE LET remove_admin_id == IntOf(strip(text))
             admins == load_admins(r.admins)
         IN  IF remove_admin_id \notin Range(admins)
                 THEN admin_menu(u, reply_text(r, "not an admin"))
             ELSE IF remove_admin_id = u /\ Len(admins) = 1
                 THEN admin_menu(u, reply_text(r, "cannot remove last admin"))
             ELSE LET saved == save_admins(remove(admins, remove_admin_id),
                                           r.admins, io)
                  IN  admin_menu(u,
                          reply_text([r EXCEPT !.admins = saved.file],
                                     IF saved.ok THEN "removed"
                                                 ELSE "save failed"))

\* get_location, get_participants, get_damage, get_injuries, get_contact.
get_location(text, r) ==
    returns(reply_text([r EXCEPT !.application.location = text], "step 2/5"),
            PARTICIPANTS)

get_participants(text, r) ==
    returns(reply_text([r EXCEPT !.application.participants = text],
                       "step 3/5"),
            DAMAGE)

\* get_damage returning the state after the next one.
get_damage_skipping_injuries(text, r) ==
    returns(reply_text([r EXCEPT !.application.damage = text], "step 5/5"),
            CONTACT)

get_damage(text, r) ==
    returns(reply_text([r EXCEPT !.application.damage = text], "step 4/5"),
            INJURIES)

get_injuries(text, r) ==
    returns(reply_text([r EXCEPT !.application.injuries = text], "step 5/5"),
            CONTACT)

get_contact(text, r) ==
    returns(reply_text([r EXCEPT !.application.contact = text], "summary"),
            CONFIRM)

\* The replies of get_ai_response that are not the backend's.
APOLOGY_UNAVAILABLE == << "AI-pomoschnik vremenno nedostupen" >>

APOLOGY_ERROR == << "proizoshla oshibka pri obrabotke soobscheniya" >>

\* A reply of the backend.
AI_MESSAGE == << "otvet pomoschnika" >>

\* What a call of the backend does.
BackendOutcomes == { "answers", "raises" }

\* conversation_history[-10:].
last_turns(conversation_history) ==
    SubSeq(conversation_history,
           IF Len(conversation_history) > CONTEXT_TURNS
               THEN Len(conversation_history) - CONTEXT_TURNS + 1
               ELSE 1,
           Len(conversation_history))

\* get_ai_response with no apology for a backend that raises: its reply is
\* then empty.
get_ai_response_silent(user_message, conversation_history, application_data, client, backend) ==
    IF ~client THEN [text |-> APOLOGY_UNAVAILABLE, request |-> << >>]
    ELSE LET messages ==
                 << [role |-> "system", content |-> << application_data >>] >>
                 \o last_turns(conversation_history)
                 \o << [role |-> "user", content |-> user_message] >>
         IN  [text |-> IF backend = "answers" THEN AI_MESSAGE ELSE << >>,
              request |-> messages]

\* get_ai_response: the reply, and the messages of the request when one is
\* made.
get_ai_response(user_message, conversation_history, application_data, client, backend) ==
    IF ~client THEN [text |-> APOLOGY_UNAVAILABLE, request |-> << >>]
    ELSE LET messages ==
                 << [role |-> "system", content |-> << application_data >>] >>
                 \o last_turns(conversation_history)
                 \o << [role |-> "user", content |-> user_message] >>
         IN  [text |-> IF backend = "answers" THEN AI_MESSAGE
                                              ELSE APOLOGY_ERROR,
              request |-> messages]

\* finish_ai_application without its test of the required fields.
finish_ai_application_unchecked(r) ==
    returns(reply_text(r, "summary"), CONFIRM)

\* finish_ai_application.
finish_ai_application(r) ==
    LET app == r.application
        missing == (IF ~Truthy(app.location) THEN << MISSING_MESTO_DTP >>
                                             ELSE << >>)
                   \o (IF ~Truthy(app.contact) THEN << MISSING_TELEFON >>
                                               ELSE << >>)
    IN  IF missing # << >>
            THEN returns(reply_text([r EXCEPT !.missing = missing],
                                    "please give"),
                         AI_CHAT)
            ELSE returns(reply_text(r, "summary"), CONFIRM)

\* ai_chat comparing the message as typed, not its lower case, with the
\* finish triggers.
ai_chat_as_typed(user_message, client, backend, r) ==
    IF user_message \in finish_triggers
        THEN finish_ai_application(r)
    ELSE LET extracted == extract_info_from_message(user_message,
                                                    r.application)
             app == extracted.application
             with_user == Append(r.ai_history,
                                 [role |-> "user", content |-> user_message])
             ai_response == get_ai_response(user_message, with_user, app,
                                            client, backend)
             with_assistant ==
                 Append(with_user,
                        [role |-> "assistant", content |-> ai_response.text])
         IN  returns(
                 reply_text([r EXCEPT !.application = app,
                                      !.ai_history = with_assistant,
                                      !.updated = extracted.updated,
                                      !.request = ai_response.request],
                            "assistant reply, then how to finish"),
                 AI_CHAT)

\* ai_chat; client is openai_client, backend what the backend does if called.
ai_chat(user_message, client, backend, r) ==
    IF lower(user_message) \in finish_triggers
        THEN finish_ai_application(r)
    ELSE LET extracted == extract_info_from_message(user_message,
                                                    r.application)
             app == extracted.application
             with_user == Append(r.ai_history,
                                 [role |-> "user", content |-> user_message])
             ai_response == get_ai_response(user_message, with_user, app,
                                            client, backend)
             with_assistant ==
                 Append(with_user,
                        [role |-> "assistant", content |-> ai_response.text])
         IN  returns(
                 reply_text([r EXCEPT !.application = app,
                                      !.ai_history = with_assistant,
                                      !.updated = extracted.updated,
                                      !.request = ai_response.request],
                            "assistant reply, then how to finish"),
                 AI_CHAT)

\* str(x) of a field in an f-string: None reads "None".
STR_NONE == << "latN", "lato", "latn", "late" >>

str(x) == IF x = None THEN STR_NONE ELSE x

\* format_application: the text the administrators get, as its parts: the
\* sender's id, the timestamp, and each field as the f-string renders it.  The
\* report holds every key from start() on, so app.get(key, default) never
\* takes its default.
format_application(app, user_id) ==
    [user_id |-> user_id, timestamp |-> app.timestamp,
     location |-> str(app.location), participants |-> str(app.participants),
     damage |-> str(app.damage), injuries |-> str(app.injuries),
     contact |-> str(app.contact)]

\* The loop of send_to_admins with the try around the whole loop: the first
\* delivery that throws ends it.
RECURSIVE send_loop_aborting(_, _, _, _)
send_loop_aborting(admins, message, fails, sent) ==
    IF admins = << >> THEN sent
    ELSE LET admin_id == Head(admins)
         IN  IF admin_id \in fails
                 THEN [sent EXCEPT !.attempts = Append(@, admin_id),
                                   !.errors = Append(@, admin_id)]
                 ELSE send_loop_aborting(
                          Tail(admins), message, fails,
                          [sent EXCEPT
                               !.attempts = Append(@, admin_id),
                               !.delivered =
                                   Append(@, [chat_id |-> admin_id,
                                              text |-> message]),
                               !.success_count = @ + 1])

\* The loop of send_to_admins over the admins left, delivery throwing for the
\* ids in fails: the deliveries attempted, those made, the ids of the error
\* log, and success_count.
RECURSIVE send_loop(_, _, _, _)
send_loop(admins, message, fails, sent) ==
    IF admins = << >> THEN sent
    ELSE LET admin_id == Head(admins)
             thrown == admin_id \in fails
         IN  send_loop(
                 Tail(admins), message, fails,
                 [attempts |-> Append(sent.attempts, admin_id),
                  delivered |->
                      IF thrown THEN sent.delivered
                      ELSE Append(sent.delivered,
                                  [chat_id |-> admin_id, text |-> message]),
                  errors |-> IF thrown THEN Append(sent.errors, admin_id)
                                       ELSE sent.errors,
                  success_count |-> IF thrown THEN sent.success_count
                                              ELSE sent.success_count + 1])

\* send_to_admins: what the loop did, and the counts of the last log line
\* (none when the roster is empty).
send_to_admins(file, message, fails) ==
    LET admins == load_admins(file)
        sent == send_loop(admins, message, fails,
                          [attempts |-> << >>, delivered |-> << >>,
                           errors |-> << >>, success_count |-> 0])
    IN  IF admins = << >>
            THEN [attempts |-> << >>, delivered |-> << >>, errors |-> << >>,
                  logged |-> << >>]
            ELSE [attempts |-> sent.attempts, delivered |-> sent.delivered,
                  errors |-> sent.errors,
                  logged |-> << sent.success_count, Len(admins) >>]

\* confirm_application sending the report before it looks at the choice.
confirm_application_sending_first(u, choice, fails, r) ==
    LET sent == send_to_admins(r.admins,
                               format_application(r.application, u), fails)
        after == [r EXCEPT !.attempts = sent.attempts,
                           !.delivered = sent.delivered,
                           !.errors = sent.errors,
                           !.logged = sent.logged]
    IN  IF Contains(MARK_CHECK, choice)
            THEN returns(reply_text(after, "application sent"), END)
            ELSE returns(reply_text(after, "application cancelled"), END)

\* confirm_application acknowledging only a report that reached somebody.
confirm_application_ack_if_delivered(u, choice, fails, r) ==
    IF Contains(MARK_CHECK, choice)
        THEN LET sent == send_to_admins(r.admins,
                                        format_application(r.application, u),
                                        fails)
                 after == [r EXCEPT !.attempts = sent.attempts,
                                    !.delivered = sent.delivered,
                                    !.errors = sent.errors,
                                    !.logged = sent.logged]
             IN  IF sent.delivered = << >>
                     THEN returns(reply_text(after, "application not sent"),
                                  CONFIRM)
                     ELSE returns(reply_text(after, "application sent"), END)
        ELSE returns(reply_text(r, "application cancelled"), END)

\* confirm_application; fails are the ids delivery throws for.
confirm_application(u, choice, fails, r) ==
    IF Contains(MARK_CHECK, choice)
        THEN LET sent == send_to_admins(r.admins,
                                        format_application(r.application, u),
                                        fails)
             IN  returns(reply_text([r EXCEPT !.attempts = sent.attempts,
                                              !.delivered = sent.delivered,
                                              !.errors = sent.errors,
                                              !.logged = sent.logged],
                                    "application sent"),
                         END)
        ELSE returns(reply_text(r, "application cancelled"), END)

\* cancel going back to the choice of mode.
cancel_to_menu(r) == returns(reply_text(r, "dialog cancelled"), CHOOSING_MODE)

\* cancel.
cancel(r) == returns(reply_text(r, "dialog cancelled"), END)

-----------------------------------------------------------------------------
(* The ConversationHandler of main() *)

\* The Latin letters: those after the Cyrillic ones in the tables.
LatinLetters ==
    { LowerChars[i] : i \in (IndexOf("ya", LowerChars) + 1)..Len(LowerChars) }
    \cup
    { UpperChars[i] : i \in (IndexOf("Ya", UpperChars) + 1)..Len(UpperChars) }

\* The characters of a command after its slash.
IsCommandChar(c) == c \in LatinLetters \/ IsDigit(c) \/ c = "_"

\* filters.COMMAND: the message starts with a bot command.
IsCommand(text) ==
    Len(text) >= 2 /\ text[1] = "/" /\ IsCommandChar(text[2])

\* The characters of s up to the first that is not of a command.
RECURSIVE command_chars(_)
command_chars(s) ==
    IF s # << >> /\ IsCommandChar(Head(s))
        THEN << Head(s) >> \o command_chars(Tail(s))
        ELSE << >>

\* Whether CommandHandler(name) takes the message.
IsCommandNamed(text, name) ==
    IsCommand(text) /\ lower(command_chars(Tail(text))) = Tail(name)

\* The handler the ConversationHandler runs for a message of a user in
\* conversation state st: an entry point when the user is in no conversation,
\* otherwise the handler of the state, which takes text that is no command,
\* otherwise a fallback; "none" when no handler takes the message.
handler_for(st, text) ==
    IF st \in { IDLE, END }
        THEN IF IsCommandNamed(text, CMD_START) THEN "start" ELSE "none"
    ELSE IF text # << >> /\ ~IsCommand(text)
        THEN CASE st = CHOOSING_MODE -> "choose_mode"
               [] st = LOCATION -> "get_location"
               [] st = PARTICIPANTS -> "get_participants"
               [] st = DAMAGE -> "get_damage"
               [] st = INJURIES -> "get_injuries"
               [] st = CONTACT -> "get_contact"
               [] st = AI_CHAT -> "ai_chat"
               [] st = CONFIRM -> "confirm_application"
               [] st = ADMIN_MENU -> "admin_menu_handler"
               [] st = ADMIN_ADD -> "admin_add_handler"
               [] st = ADMIN_REMOVE -> "admin_remove_handler"
    ELSE IF IsCommandNamed(text, CMD_CANCEL) THEN "cancel"
    ELSE "none"

\* The messages explored in each state.
CommandInputs == { CMD_START, CMD_CANCEL }

IgnoredInputs == { CMD_FINISH }

ModeInputs == { BTN_AI, BTN_FORM, BTN_ADMIN }

AdminMenuInputs == { BTN_ADD, BTN_REMOVE, BTN_LIST, BTN_BACK }

IdInputs == { MSG_ID_5, MSG_ID_7, MSG_ID_42, MSG_NOT_ID }

FormInputs == { LIT_2_AVTOMOBILYA, MSG_GOTOVO }

AiInputs == { MSG_ADDR_PHONE, MSG_ADDR, MSG_PHONE8, MSG_DAMAGE, MSG_GOTOVO }

ConfirmInputs == { BTN_CONFIRM, BTN_CANCEL }

\* The end of a turn of user u on message text that handler h ran and that
\* ended as r: the conversation state, user_data and the file are as the
\* handler left them.
Handled(u, text, h, r) ==
    /\ r.clock <= MaxClock
    /\ Len(r.ai_history) <= 2 * MaxAiTurns
    /\ state' = [state EXCEPT ![u] = r.state]
    /\ application' = [application EXCEPT ![u] = r.application]
    /\ ai_history' = [ai_history EXCEPT ![u] = r.ai_history]
    /\ admins_txt' = r.admins
    /\ clock' = r.clock
    /\ everAdmin' = everAdmin \cup (Users \cap Range(r.admins))
    /\ last' = [user |-> u, text |-> text, handler |-> h,
                replies |-> r.replies, missing |-> r.missing,
                updated |-> r.updated, request |-> r.request,
                attempts |-> r.attempts, delivered |-> r.delivered,
                errors |-> r.errors, logged |-> r.logged,
                raised |-> r.raised, before |-> admins_txt]
    /\ UNCHANGED openai_client

Start(u, text) ==
    /\ handler_for(state[u], text) = "start"
    /\ Handled(u, text, "start", start(u, turn(u)))

ChooseMode(u, text) ==
    /\ handler_for(state[u], text) = "choose_mode"
    /\ Handled(u, text, "choose_mode", choose_mode(u, text, turn(u)))

AdminMenuHandler(u, text) ==
    /\ handler_for(state[u], text) = "admin_menu_handler"
    /\ Handled(u, text, "admin_menu_handler",
               admin_menu_handler(u, text, turn(u)))

AdminAddHandler(u, text, io) ==
    /\ handler_for(state[u], text) = "admin_add_handler"
    /\ Handled(u, text, "admin_add_handler",
               admin_add_handler(u, text, io, turn(u)))

AdminRemoveHandler(u, text, io) ==
    /\ handler_for(state[u], text) = "admin_remove_handler"
    /\ Handled(u, text, "admin_remove_handler",
               admin_remove_handler(u, text, io, turn(u)))

GetLocation(u, text) ==
    /\ handler_for(state[u], text) = "get_location"
    /\ Handled(u, text, "get_location", get_location(text, turn(u)))

GetParticipants(u, text) ==
    /\ handler_for(state[u], text) = "get_participants"
    /\ Handled(u, text, "get_participants", get_participants(text, turn(u)))

GetDamage(u, text) ==
    /\ handler_for(state[u], text) = "get_damage"
    /\ Handled(u, text, "get_damage", get_damage(text, turn(u)))

GetInjuries(u, text) ==
    /\ handler_for(state[u], text) = "get_injuries"
    /\ Handled(u, text, "get_injuries", get_injuries(text, turn(u)))

GetContact(u, text) ==
    /\ handler_for(state[u], text) = "get_contact"
    /\ Handled(u, text, "get_contact", get_contact(text, turn(u)))

AiChat(u, text, backend) ==
    /\ handler_for(state[u], text) = "ai_chat"
    /\ Handled(u, text, "ai_chat",
               ai_chat(text, openai_client, backend, turn(u)))

ConfirmApplication(u, text, fails) ==
    /\ handler_for(state[u], text) = "confirm_application"
    /\ Handled(u, text, "confirm_application",
               confirm_application(u, text, fails, turn(u)))

Cancel(u, text) ==
    /\ handler_for(state[u], text) = "cancel"
    /\ Handled(u, text, "cancel", cancel(turn(u)))

\* A message no handler takes: nothing runs and nothing is sent.
Unhandled(u, text) ==
    /\ handler_for(state[u], text) = "none"
    /\ Handled(u, text, "none", turn(u))

\* Before the first message: some roster on file, a client or none, nobody in
\* a conversation.
Init ==
    /\ admins_txt \in Rosters
    /\ openai_client \in BOOLEAN
    /\ state = [u \in Users |-> IDLE]
    /\ application = [u \in Users |-> new_application(0)]
    /\ ai_history = [u \in Users |-> << >>]
    /\ clock = 0
    /\ everAdmin = Users \cap Range(admins_txt)
    /\ last = [user |-> 0, text |-> << >>, handler |-> "none",
               replies |-> << >>, missing |-> << >>, updated |-> << >>,
               request |-> << >>, attempts |-> << >>, delivered |-> << >>,
               errors |-> << >>, logged |-> << >>, raised |-> FALSE,
               before |-> admins_txt]

\* One user and every handler.
Next ==
    \/ \E u \in Reporters, text \in CommandInputs : Start(u, text)
    \/ \E u \in Reporters, text \in CommandInputs : Cancel(u, text)
    \/ \E u \in Reporters, text \in IgnoredInputs : Unhandled(u, text)
    \/ \E u \in Reporters, text \in ModeInputs : ChooseMode(u, text)
    \/ \E u \in Reporters, text \in AdminMenuInputs : AdminMenuHandler(u, text)
    \/ \E u \in Reporters, text \in IdInputs, io \in SaveOutcomes :
           AdminAddHandler(u, text, io)
    \/ \E u \in Reporters, text \in IdInputs, io \in SaveOutcomes :
           AdminRemoveHandler(u, text, io)
    \/ \E u \in Reporters, text \in FormInputs : GetLocation(u, text)
    \/ \E u \in Reporters, text \in FormInputs : GetParticipants(u, text)
    \/ \E u \in Reporters, text \in FormInputs : GetDamage(u, text)
    \/ \E u \in Reporters, text \in FormInputs : GetInjuries(u, text)
    \/ \E u \in Reporters, text \in FormInputs : GetContact(u, text)
    \/ \E u \in Reporters, text \in AiInputs, backend \in BackendOutcomes :
           AiChat(u, text, backend)
    \/ \E u \in Reporters, text \in ConfirmInputs,
          fails \in SUBSET Range(admins_txt) :
           ConfirmApplication(u, text, fails)

Spec == Init /\ [][Next]_vars

\* Every user, and the handlers that lead to the roster and change it.
NextAdmin ==
    \/ \E u \in Users, text \in CommandInputs : Start(u, text)
    \/ \E u \in Users, text \in CommandInputs : Cancel(u, text)
    \/ \E u \in Users, text \in IgnoredInputs : Unhandled(u, text)
    \/ \E u \in Users, text \in ModeInputs : ChooseMode(u, text)
    \/ \E u \in Users, text \in AdminMenuInputs : AdminMenuHandler(u, text)
    \/ \E u \in Users, text \in IdInputs, io \in SaveOutcomes :
           AdminAddHandler(u, text, io)
    \/ \E u \in Users, text \in IdInputs, io \in SaveOutcomes :
           AdminRemoveHandler(u, text, io)

SpecAdmin == Init /\ [][NextAdmin]_vars

-----------------------------------------------------------------------------
(* A reply that raises *)

\* The handler named h on turn r, the write succeeding, the backend
\* answering and every delivery made.
run(h, u, text, r) ==
    CASE h = "start" -> start(u, r)
      [] h = "choose_mode" -> choose_mode(u, text, r)
      [] h = "admin_menu_handler" -> admin_menu_handler(u, text, r)
      [] h = "admin_add_handler" -> admin_add_handler(u, text, "ok", r)
      [] h = "admin_remove_handler" -> admin_remove_handler(u, text, "ok", r)
      [] h = "get_location" -> get_location(text, r)
      [] h = "get_participants" -> get_participants(text, r)
      [] h = "get_damage" -> get_damage(text, r)
      [] h = "get_injuries" -> get_injuries(text, r)
      [] h = "get_contact" -> get_contact(text, r)
      [] h = "ai_chat" -> ai_chat(text, openai_client, "answers", r)
      [] h = "confirm_application" -> confirm_application(u, text, { }, r)
      [] h = "cancel" -> cancel(r)

\* The messages of the turns that raise: a command, a menu button, an
\* identifier, an answer of the form, a message of the dialogue and the
\* confirmation.
RaiseInputs ==
    { CMD_START, BTN_ADD, MSG_ID_5, LIT_2_AVTOMOBILYA, MSG_ADDR_PHONE,
      BTN_CONFIRM }

\* A turn whose k-th call of reply_text raises (the transport fails): the
\* handler ends there, the exception goes to error_handler, which logs it,
\* and the ConversationHandler stores no new state.  What the handler wrote
\* before the call is written.
Raises(u, text, k) ==
    LET h == handler_for(state[u], text)
    IN  /\ h # "none"
        /\ LET r == run(h, u, text, [turn(u) EXCEPT !.raise_at = k])
           IN  /\ r.raised
               /\ Handled(u, text, h, r)

\* As Init, the reporter alone on the roster.
InitRaise == Init /\ admins_txt = << 7 >>

\* One user, every handler, and any reply raising.
NextRaise ==
    \/ Next
    \/ \E u \in Reporters, text \in RaiseInputs, k \in { 1, 2 } :
           Raises(u, text, k)

SpecRaise == InitRaise /\ [][NextRaise]_vars

-----------------------------------------------------------------------------
(* Two sessions on the roster *)

\* admins.txt holds both users, each of whom may manage the roster.
InitRace == Init /\ admins_txt = << 7, 42 >>

\* The sessions of the two users take turns in any order.  A handler is a
\* coroutine of one event loop: another runs only while it awaits, and
\* between load_admins() and save_admins() of admin_add_handler and
\* admin_remove_handler there is no await; the Application moreover handles
\* the updates one after the other (concurrent_updates is not set).  So a
\* turn is one step.  run_polling() keeps handling the updates that arrive.
SpecRace == InitRace /\ [][NextAdmin]_vars /\ WF_vars(NextAdmin)

-----------------------------------------------------------------------------
(* extract_info_from_message on its own: any report, any message *)

\* The reports the extractor is called on: each field None, the empty string
\* (the other value `not application.get(field)` takes for unset) or a text.
ExtractReports ==
    [timestamp : { 1 },
     location : { None, << >>, MSG_ADDR },
     participants : { None, LIT_3_AVTOMOBILYA },
     damage : { None, MSG_PRIVET },
     injuries : { None, LIT_EST_POSTRADAVSHIE },
     photos_count : { 0 },
     contact : { None, << >>, MSG_ID_42 }]

ExtractInputs ==
    { MSG_ADDR_PHONE, MSG_ADDR, MSG_PHONE8, MSG_DAMAGE, MSG_EXAMPLE,
      MSG_PRIVET }

\* One call of extract_info_from_message on the report of user u, as ai_chat
\* makes it: the report is changed in place and `updated` is returned.
ExtractInfo(u, message) ==
    LET extracted == extract_info_from_message(message, application[u])
    IN  /\ application' = [application EXCEPT ![u] = extracted.application]
        /\ last' = [last EXCEPT !.user = u, !.text = message,
                                !.handler = "extract_info_from_message",
                                !.updated = extracted.updated]
        /\ UNCHANGED << admins_txt, openai_client, state, ai_history, clock,
                        everAdmin >>

InitExtract ==
    /\ admins_txt = << >>
    /\ openai_client = FALSE
    /\ state = [u \in Users |-> IF u \in Reporters THEN AI_CHAT ELSE IDLE]
    /\ \E report \in ExtractReports :
           application = [u \in Users |-> IF u \in Reporters
                                              THEN report
                                              ELSE new_application(0)]
    /\ ai_history = [u \in Users |-> << >>]
    /\ clock = 1
    /\ everAdmin = { }
    /\ last = [user |-> 0, text |-> << >>, handler |-> "none",
               replies |-> << >>, missing |-> << >>, updated |-> << >>,
               request |-> << >>, attempts |-> << >>, delivered |-> << >>,
               errors |-> << >>, logged |-> << >>, raised |-> FALSE,
               before |-> << >>]

NextExtract ==
    \E u \in Reporters, message \in ExtractInputs : ExtractInfo(u, message)

SpecExtract == InitExtract /\ [][NextExtract]_vars

-----------------------------------------------------------------------------
(* The properties *)

\* The user of the turn a step takes and the handler the ConversationHandler
\* runs for it, read from the step: the state before, the message after.
TurnOf(u, h) == last'.user = u /\ handler_for(state[u], last'.text) = h

\* The order of the guided form and the field each step fills.
FormStates == { LOCATION, PARTICIPANTS, DAMAGE, INJURIES, CONTACT }

StepAfter(st) ==
    CASE st = LOCATION -> PARTICIPANTS
      [] st = PARTICIPANTS -> DAMAGE
      [] st = DAMAGE -> INJURIES
      [] st = INJURIES -> CONTACT
      [] st = CONTACT -> CONFIRM

FieldOf(st) ==
    CASE st = LOCATION -> "location"
      [] st = PARTICIPANTS -> "participants"
      [] st = DAMAGE -> "damage"
      [] st = INJURIES -> "injuries"
      [] st = CONTACT -> "contact"

\* A report with its two required fields.
Submittable(app) == Truthy(app.location) /\ Truthy(app.contact)

\* C1: in a step of the guided form (Location, Participants, Damage,
\* Injuries, Contact) every message that is text and no command moves the
\* session to the next step of the order Location -> Participants -> Damage
\* -> Injuries -> Contact -> Confirm, stores the message as it is in the
\* field of the step that got it, and leaves the other fields alone.
C1_GuidedStep ==
    \A u \in Reporters :
        (state[u] \in FormStates /\ last'.user = u
         /\ last'.text # << >> /\ ~IsCommand(last'.text))
        => /\ state'[u] = StepAfter(state[u])
           /\ application'[u] =
                  [application[u] EXCEPT ![FieldOf(state[u])] = last'.text]

C1_GuidedFormOrder == [][C1_GuidedStep]_vars

\* C1 witness: a guided form run to Confirm, every field holding the message
\* of its step.
C1_Witness ==
    /\ state[7] = CONFIRM
    /\ last.handler = "get_contact"
    /\ application[7].location = MSG_GOTOVO
    /\ application[7].participants = LIT_2_AVTOMOBILYA
    /\ application[7].damage = MSG_GOTOVO
    /\ application[7].injuries = LIT_2_AVTOMOBILYA
    /\ application[7].contact = MSG_GOTOVO

\* C2: a session in Confirm has a report with location and contact both
\* set, and every report delivered to an administrator is the rendering of
\* the sender's report, which has location and contact both set; the other
\* three fields may hold anything.
C2_Submittable ==
    /\ \A u \in Users : state[u] = CONFIRM => Submittable(application[u])
    /\ last.delivered # << >>
       => /\ Submittable(application[last.user])
          /\ \A i \in 1..Len(last.delivered) :
                 last.delivered[i].text =
                     format_application(application[last.user], last.user)

\* C2 witness: a report of the assisted interview, damage never given,
\* delivered to an administrator.
C2_Witness ==
    /\ last.handler = "confirm_application"
    /\ last.delivered # << >>
    /\ ai_history[7] # << >>
    /\ application[7].damage = None
    /\ last.delivered[1].text.damage = STR_NONE

\* What finish_ai_application is to name as missing for a report.
MissingOf(app) ==
    (IF Truthy(app.location) THEN << >> ELSE << MISSING_MESTO_DTP >>)
    \o (IF Truthy(app.contact) THEN << >> ELSE << MISSING_TELEFON >>)

\* C3: a finish trigger handled in AiChat moves the session to Confirm if and
\* only if location and contact are both set, whatever participants, damage
\* and injuries hold; otherwise the session stays in AiChat and the reply
\* names exactly the required fields that are missing.
C3_FinishStep ==
    \A u \in Reporters :
        (TurnOf(u, "ai_chat") /\ lower(last'.text) \in finish_triggers)
        => /\ state'[u] = CONFIRM <=> Submittable(application[u])
           /\ ~Submittable(application[u])
              => /\ state'[u] = AI_CHAT
                 /\ last'.missing = MissingOf(application[u])

C3_FinishValidation == [][C3_FinishStep]_vars

\* C3 witness: a finish trigger refused for the phone alone, the place given.
C3_Witness ==
    /\ last.handler = "ai_chat"
    /\ lower(last.text) \in finish_triggers
    /\ state[7] = AI_CHAT
    /\ Truthy(application[7].location)
    /\ last.missing = << MISSING_TELEFON >>

\* C4: the message "/finish" sent in AiChat with location and contact both
\* set moves the session to Confirm.
C4_SlashFinishStep ==
    \A u \in Reporters :
        (state[u] = AI_CHAT /\ last'.user = u /\ last'.text = CMD_FINISH
         /\ Submittable(application[u]))
        => state'[u] = CONFIRM

C4_SlashFinishFinishes == [][C4_SlashFinishStep]_vars

\* C5: extract_info_from_message leaves every field that is already set as
\* it is, and a second call with the same message changes nothing in the
\* report and reports no field as filled.
C5_NoOverwriteStep ==
    \A u \in Reporters, f \in Fields :
        Truthy(application[u][f]) => application'[u][f] = application[u][f]

C5_SecondCall ==
    last.handler = "extract_info_from_message"
    => extract_info_from_message(last.text, application[last.user])
           = [application |-> application[last.user], updated |-> << >>]

C5_ExtractorKeepsAndRepeats == [][C5_NoOverwriteStep]_vars /\ []C5_SecondCall

\* C5 witness: a call on a report whose place was set, with a message that
\* holds an address keyword and a phone: the place is kept, the phone filled.
C5_Witness ==
    /\ last.handler = "extract_info_from_message"
    /\ last.text = MSG_ADDR_PHONE
    /\ application[7].location = MSG_ADDR
    /\ application[7].contact = SubSeq(MSG_ADDR_PHONE, 15, 26)
    /\ "contact" \in Range(last.updated)
    /\ "location" \notin Range(last.updated)

\* A turn of admin_remove_handler of user u whose target is in the roster.
RemoveOfPresent(u) ==
    /\ TurnOf(u, "admin_remove_handler")
    /\ IsInt(strip(last'.text))
    /\ IntOf(strip(last'.text)) \in Range(admins_txt)

\* The self-removal guard: the target is the caller and the only entry.
Guarded(u) == IntOf(strip(last'.text)) = u /\ Len(admins_txt) = 1

\* C6 as stated: the removal of a target in the roster leaves the roster
\* unchanged if and only if the target is the caller and the roster has one
\* entry; in every other case the stored roster is the roster without the
\* target.
C6_AsStatedStep ==
    \A u \in Users :
        RemoveOfPresent(u)
        => IF Guarded(u)
               THEN admins_txt' = admins_txt
               ELSE admins_txt' = remove(admins_txt,
                                         IntOf(strip(last'.text)))

C6_AsStated == [][C6_AsStatedStep]_vars

\* C6: the removal of a target in the roster is refused, the roster
\* unchanged, if and only if the target is the caller and the roster has
\* one entry; in every other case the roster without the target is written,
\* and the file holds it when the write succeeds; when the write fails the
\* caller is told so and the file is as the failed write left it, unchanged
\* or empty.
C6_GuardStep ==
    \A u \in Users :
        RemoveOfPresent(u)
        => IF Guarded(u)
               THEN /\ admins_txt' = admins_txt
                    /\ last'.replies[1] = "cannot remove last admin"
               ELSE \/ /\ last'.replies[1] = "removed"
                       /\ admins_txt' = remove(admins_txt,
                                               IntOf(strip(last'.text)))
                    \/ /\ last'.replies[1] = "save failed"
                       /\ admins_txt' \in { admins_txt, << >> }

C6_SelfRemovalGuard == [][C6_GuardStep]_vars

\* C6 witness: 42 removed itself from a roster of 42 and 7.
C6_Witness ==
    /\ last.handler = "admin_remove_handler"
    /\ last.user = 42
    /\ last.text = MSG_ID_42
    /\ last.replies[1] = "removed"
    /\ admins_txt = << 7 >>
    /\ 7 \in everAdmin

\* C7: every change of the stored roster is made by a caller who is in the
\* roster as it is loaded in that turn.
C7_ChangeByAdminStep ==
    admins_txt' # admins_txt => last'.user \in Range(admins_txt)

C7_RevocationIsImmediate == [][C7_ChangeByAdminStep]_vars

\* C8: from ChoosingMode the session enters AdminMenu if and only if the
\* choice holds the admin mark and the caller is in the roster at that turn,
\* whatever start() showed; and a user the roster has never held is in none
\* of AdminMenu, AdminAdd, AdminRemove and changes no roster.
C8_GateStep ==
    \A u \in Users :
        /\ TurnOf(u, "choose_mode")
           => (state'[u] = ADMIN_MENU
               <=> Contains(MARK_GEAR, last'.text)
                   /\ u \in Range(admins_txt))
        /\ u \notin everAdmin
           => /\ state'[u] \notin { ADMIN_MENU, ADMIN_ADD, ADMIN_REMOVE }
              /\ last'.user = u => admins_txt' = admins_txt

C8_AdminEntryGate == [][C8_GateStep]_vars

\* C8 witness: 7 was in the roster when start() showed the admin choice, was
\* removed by 42, chose admin management and was not let in.
C8_Witness ==
    /\ last.handler = "choose_mode"
    /\ last.user = 7
    /\ Contains(MARK_GEAR, last.text)
    /\ 7 \in everAdmin
    /\ 7 \notin Range(admins_txt)
    /\ state[7] \notin { ADMIN_MENU, ADMIN_ADD, ADMIN_REMOVE }
    /\ state[42] = ADMIN_MENU

\* C9: a caller who is not in the roster and chooses admin management in
\* ChoosingMode is told that access is denied and is in ChoosingMode again.
C9_DenialStep ==
    \A u \in Reporters :
        (TurnOf(u, "choose_mode") /\ Contains(MARK_GEAR, last'.text)
         /\ u \notin Range(admins_txt))
        => /\ state'[u] = CHOOSING_MODE
           /\ "no access" \in Range(last'.replies)

C9_DenialRedirects == [][C9_DenialStep]_vars

\* The ids of seq that are not in the set skip, in the order of seq.
Without(seq, skip) == SelectSeq(seq, LAMBDA x : x \notin skip)

\* C10: a broadcast attempts delivery once to every entry of the roster it
\* loaded, in order; every entry whose delivery does not throw gets the
\* report; and the counts logged are the deliveries made and the size of
\* that roster.
C10_Broadcast ==
    (last.handler = "confirm_application" /\ Contains(MARK_CHECK, last.text))
    => /\ last.attempts = admins_txt
       /\ Range(last.errors) \subseteq Range(last.attempts)
       /\ [i \in 1..Len(last.delivered) |-> last.delivered[i].chat_id]
              = Without(last.attempts, Range(last.errors))
       /\ \A i \in 1..Len(last.delivered) :
              last.delivered[i].text =
                  format_application(application[last.user], last.user)
       /\ admins_txt # << >>
          => last.logged = << Len(last.delivered), Len(last.attempts) >>

\* C10 witness: three entries, the delivery to the second throws, 2 of 3.
C10_Witness ==
    /\ last.handler = "confirm_application"
    /\ Len(last.attempts) = 3
    /\ last.errors = << last.attempts[2] >>
    /\ Len(last.delivered) = 2
    /\ last.delivered[2].chat_id = last.attempts[3]
    /\ last.logged = << 2, 3 >>

-----------------------------------------------------------------------------
(* The properties of the confirmation, of cancel and of the roster *)

\* C11: a turn attempts a delivery to an administrator only when it is
\* confirm_application handling a text with the check mark in Confirm; any
\* other text in Confirm ends the conversation with the cancellation reply
\* and no delivery attempted.
C11_DeliveryStep ==
    /\ last'.attempts # << >>
       => /\ state[last'.user] = CONFIRM
          /\ handler_for(CONFIRM, last'.text) = "confirm_application"
          /\ Contains(MARK_CHECK, last'.text)
    /\ last'.delivered # << >> => last'.attempts # << >>
    /\ \A u \in Reporters :
           (TurnOf(u, "confirm_application")
            /\ ~Contains(MARK_CHECK, last'.text))
           => /\ state'[u] = END
              /\ last'.replies = << "application cancelled" >>
              /\ last'.attempts = << >>
              /\ last'.delivered = << >>

C11_ConfirmOutcome == [][C11_DeliveryStep]_vars

\* C11 witness: a report with its required fields refused in Confirm while
\* the roster has entries: the conversation ended and nothing was sent.
C11_Witness ==
    /\ last.handler = "confirm_application"
    /\ last.text = BTN_CANCEL
    /\ state[7] = END
    /\ Submittable(application[7])
    /\ admins_txt # << >>
    /\ last.attempts = << >>
    /\ last.replies = << "application cancelled" >>

\* C12: a text with the check mark in Confirm ends the conversation with the
\* success reply to the sender, whatever the roster holds and whichever
\* deliveries throw.
C12_AckStep ==
    \A u \in Reporters :
        (TurnOf(u, "confirm_application") /\ Contains(MARK_CHECK, last'.text))
        => /\ state'[u] = END
           /\ last'.replies = << "application sent" >>

C12_AcknowledgedAnyway == [][C12_AckStep]_vars

\* C12 witness: two administrators, both deliveries threw, the sender was
\* told the report was sent.
C12_Witness ==
    /\ last.handler = "confirm_application"
    /\ Len(last.attempts) = 2
    /\ Len(last.errors) = 2
    /\ last.delivered = << >>
    /\ last.logged = << 0, 2 >>
    /\ last.replies = << "application sent" >>
    /\ state[7] = END

\* The states of a conversation under way.
NonTerminal ==
    { CHOOSING_MODE, LOCATION, PARTICIPANTS, DAMAGE, INJURIES, CONTACT,
      AI_CHAT, CONFIRM, ADMIN_MENU, ADMIN_ADD, ADMIN_REMOVE }

\* C13: in every state of a conversation under way the cancel command ends
\* the conversation with the cancellation reply, attempts no delivery and
\* leaves the roster and the report alone; and in every such state the
\* ConversationHandler gives the cancel command to cancel.
C13_CancelStep ==
    \A u \in Reporters :
        (state[u] \in NonTerminal /\ last'.user = u
         /\ last'.text = CMD_CANCEL)
        => /\ state'[u] = END
           /\ last'.replies = << "dialog cancelled" >>
           /\ last'.attempts = << >>
           /\ last'.delivered = << >>
           /\ admins_txt' = admins_txt
           /\ application'[u] = application[u]

C13_CancelOffered ==
    \A u \in Reporters :
        state[u] \in NonTerminal
        => /\ handler_for(state[u], CMD_CANCEL) = "cancel"
           /\ cancel(turn(u)).state = END

C13_GlobalCancel == [][C13_CancelStep]_vars /\ []C13_CancelOffered

\* C13 witness: a guided form cancelled in Confirm, the roster not empty.
C13_Witness ==
    /\ last.handler = "cancel"
    /\ last.text = CMD_CANCEL
    /\ state[7] = END
    /\ ai_history[7] = << >>
    /\ Truthy(application[7].contact)
    /\ admins_txt # << >>
    /\ last.attempts = << >>

\* The id a message of AdminAdd or AdminRemove gives.
IdOf(text) == IntOf(strip(text))

\* Where admin_menu leaves the caller once the handler is done: the menu for
\* a caller the stored roster holds, the end of the conversation otherwise.
MenuOrEnd(u, file) == IF u \in Range(file) THEN ADMIN_MENU ELSE END

\* How many entries of a roster are x.
Count(x, file) == Cardinality({ i \in 1..Len(file) : file[i] = x })

\* C14 as stated: in AdminAdd a text that is no number leaves the session in
\* AdminAdd and the roster unchanged; an id the roster holds leaves the roster
\* unchanged and the session in AdminMenu; any other id is appended at the
\* end of the stored roster and the session is in AdminMenu.
C14_AsStatedStep ==
    \A u \in Users :
        TurnOf(u, "admin_add_handler")
        => IF ~IsInt(strip(last'.text))
               THEN state'[u] = ADMIN_ADD /\ admins_txt' = admins_txt
           ELSE IF IdOf(last'.text) \in Range(admins_txt)
               THEN state'[u] = ADMIN_MENU /\ admins_txt' = admins_txt
           ELSE /\ state'[u] = ADMIN_MENU
                /\ admins_txt' = Append(admins_txt, IdOf(last'.text))
                /\ Count(IdOf(last'.text), admins_txt') = 1

C14_AsStated == [][C14_AsStatedStep]_vars

\* C14: in AdminAdd a text that is no number leaves the session in AdminAdd
\* and the roster unchanged; an id the roster holds leaves the roster
\* unchanged; any other id is appended at the end and written, and when the
\* write succeeds the stored roster is the old one with the id at its end,
\* exactly once; when the write fails the caller is told so and the file is
\* as the failed write left it, unchanged or empty.  After a numeric input
\* the session is in AdminMenu when the stored roster holds the caller and
\* ended otherwise.
C14_AddStep ==
    \A u \in Users :
        TurnOf(u, "admin_add_handler")
        => IF ~IsInt(strip(last'.text))
               THEN state'[u] = ADMIN_ADD /\ admins_txt' = admins_txt
           ELSE /\ state'[u] = MenuOrEnd(u, admins_txt')
                /\ IF IdOf(last'.text) \in Range(admins_txt)
                       THEN /\ admins_txt' = admins_txt
                            /\ last'.replies[1] = "already an admin"
                       ELSE \/ /\ last'.replies[1] = "added"
                               /\ admins_txt' =
                                      Append(admins_txt, IdOf(last'.text))
                               /\ Count(IdOf(last'.text), admins_txt') = 1
                            \/ /\ last'.replies[1] = "save failed"
                               /\ admins_txt' \in { admins_txt, << >> }

C14_AdminAdd == [][C14_AddStep]_vars

\* C14 witness: 5 added at the end of a roster of 42 and 7, the caller back
\* in AdminMenu.
C14_Witness ==
    /\ last.handler = "admin_add_handler"
    /\ last.text = MSG_ID_5
    /\ last.replies[1] = "added"
    /\ admins_txt = << 42, 7, 5 >>
    /\ state[last.user] = ADMIN_MENU

\* C15: after a removal that succeeded, made by a caller the roster held,
\* the session is in AdminMenu, also when the caller removed its own id from
\* a roster of two or more.
C15_RemovedStep ==
    \A u \in Users :
        (TurnOf(u, "admin_remove_handler") /\ u \in Range(admins_txt)
         /\ IsInt(strip(last'.text)) /\ last'.replies[1] = "removed")
        => state'[u] = ADMIN_MENU

C15_RemoveReturnsToMenu == [][C15_RemovedStep]_vars

\* C16: a turn of AdminAdd or AdminRemove whose write fails tells the caller
\* that saving failed and leaves the stored roster as it was before the turn.
C16_FailedSaveStep ==
    \A u \in Users :
        ((TurnOf(u, "admin_add_handler")
          \/ TurnOf(u, "admin_remove_handler"))
         /\ "save failed" \in Range(last'.replies))
        => load_admins(admins_txt') = load_admins(admins_txt)

C16_FailedSaveKeepsRoster == [][C16_FailedSaveStep]_vars

\* C17: a turn of a conversation under way whose handler raises leaves the
\* conversation state, the report, the history and the roster as they were
\* before the turn.
C17_RaiseStep ==
    \A u \in Reporters :
        (last'.user = u /\ last'.raised /\ state[u] \in NonTerminal)
        => /\ state'[u] = state[u]
           /\ application'[u] = application[u]
           /\ ai_history'[u] = ai_history[u]
           /\ admins_txt' = admins_txt

C17_RaiseKeepsState == [][C17_RaiseStep]_vars

\* The last turn was handler h, and its caller was told reply.
Acknowledged(h, reply) ==
    /\ last.handler = h
    /\ last.replies # << >>
    /\ last.replies[1] = reply

\* A lost update: a caller was told that its change succeeded, and the
\* stored roster is not the one stored before that turn (last.before) with
\* this change made, so that a change some session made before is undone
\* or this one is missing.
C18_Lost ==
    \/ /\ Acknowledged("admin_add_handler", "added")
       /\ admins_txt # Append(last.before, IdOf(last.text))
    \/ /\ Acknowledged("admin_remove_handler", "removed")
       /\ admins_txt # remove(last.before, IdOf(last.text))

\* C18 as stated: the turns of two sessions that add or remove interleave so
\* that a lost update happens.
C18_AsStated == <>C18_Lost

\* C18: however the turns of the two sessions interleave, a change a caller
\* is told succeeded is made on the roster stored at that moment: an add
\* appends its id to it and a removal takes its id out of it, every other
\* entry staying, so that no update is lost.
C18_NoLostUpdate ==
    /\ Acknowledged("admin_add_handler", "added")
       => admins_txt = Append(last.before, IdOf(last.text))
    /\ Acknowledged("admin_remove_handler", "removed")
       => admins_txt = remove(last.before, IdOf(last.text))

\* C18 witness: from the roster of 7 and 42, user 42 is told that 5 was
\* added while the roster no longer holds 42: the removal of 42 by the
\* session of 7 and the add by the session of 42 are both stored.
C18_Witness ==
    /\ last.user = 42
    /\ last.handler = "admin_add_handler"
    /\ last.replies # << >>
    /\ last.replies[1] = "added"
    /\ last.before = << 7 >>
    /\ admins_txt = << 7, 5 >>

\* The turns of a history from the (n+1)-th on.
TurnsAfter(history, n) == SubSeq(history, n + 1, Len(history))

\* What the assistant turn of a history may hold: the apology for no client
\* when there is none, the reply of the backend or the apology for its
\* error when there is one.
AssistantTexts(client) ==
    IF client THEN { AI_MESSAGE, APOLOGY_ERROR } ELSE { APOLOGY_UNAVAILABLE }

\* C19: a turn of AiChat that is no finish trigger, whether the backend
\* answers, is unavailable or raises, raises nothing, leaves the session in
\* AiChat, adds to the history one user turn holding the message and after
\* it one assistant turn, holding the apology when the backend failed, and
\* stores the report of the extractor, in which the fields it filled in
\* this turn are filled.
C19_ChatStep ==
    \A u \in Reporters :
        (TurnOf(u, "ai_chat") /\ lower(last'.text) \notin finish_triggers)
        => /\ ~last'.raised
           /\ state'[u] = AI_CHAT
           /\ SubSeq(ai_history'[u], 1, Len(ai_history[u])) = ai_history[u]
           /\ Len(ai_history'[u]) = Len(ai_history[u]) + 2
           /\ TurnsAfter(ai_history'[u], Len(ai_history[u]))[1]
                  = [role |-> "user", content |-> last'.text]
           /\ TurnsAfter(ai_history'[u], Len(ai_history[u]))[2].role
                  = "assistant"
           /\ TurnsAfter(ai_history'[u], Len(ai_history[u]))[2].content
                  \in AssistantTexts(openai_client)
           /\ (last'.request = << >>) = ~openai_client
           /\ application'[u]
                  = extract_info_from_message(last'.text,
                                              application[u]).application
           /\ \A i \in 1..Len(last'.updated) :
                  Truthy(application'[u][last'.updated[i]])

C19_BackendFailureDegrades == [][C19_ChatStep]_vars

\* C19 witness: the backend raised on a message from which the extractor
\* filled the place, the phone and, from the 2 of the phone, the vehicles:
\* the session is in AiChat, the history holds the message and the apology,
\* the fields are filled.
C19_Witness ==
    /\ last.handler = "ai_chat"
    /\ last.text = MSG_ADDR_PHONE
    /\ state[last.user] = AI_CHAT
    /\ Len(ai_history[last.user]) = 2
    /\ ai_history[last.user][2]
           = [role |-> "assistant", content |-> APOLOGY_ERROR]
    /\ last.updated = << "location", "participants", "contact" >>
    /\ Truthy(application[last.user].location)
    /\ Truthy(application[last.user].contact)

\* C20: one call of extract_info_from_message with the example message on a
\* report that holds no field sets location to the message, participants to
\* the literal for two vehicles, injuries to the literal for no injuries and
\* contact to the phone that ends the message, and leaves damage unset.
C20_ExampleStep ==
    \A u \in Reporters :
        ( /\ last'.user = u
          /\ last'.handler = "extract_info_from_message"
          /\ last'.text = MSG_EXAMPLE
          /\ \A f \in Fields : application[u][f] = None )
        => /\ application'[u].location = MSG_EXAMPLE
           /\ application'[u].participants = LIT_2_AVTOMOBILYA
           /\ application'[u].injuries = LIT_NET_POSTRADAVSHIH
           /\ application'[u].contact
                  = SubSeq(MSG_EXAMPLE, Len(MSG_EXAMPLE) - 11,
                           Len(MSG_EXAMPLE))
           /\ application'[u].damage = None

C20_ExtractionExample == [][C20_ExampleStep]_vars

\* C21: in every request made from a turn of AiChat, what follows the system
\* instruction is the last 10 turns of the history as it was before the
\* message, in order, and after them the message, once; the history only
\* grows at its end.
C21_ContextStep ==
    \A u \in Reporters :
        (TurnOf(u, "ai_chat") /\ last'.request # << >>)
        => /\ last'.request[1].role = "system"
           /\ SubSeq(last'.request, 2, Len(last'.request))
                  = last_turns(ai_history[u])
                    \o << [role |-> "user", content |-> last'.text] >>
           /\ Count([role |-> "user", content |-> last'.text],
                    SubSeq(last'.request, 2, Len(last'.request)))
                  = 1 + Count([role |-> "user", content |-> last'.text],
                              last_turns(ai_history[u]))
           /\ SubSeq(ai_history'[u], 1, Len(ai_history[u])) = ai_history[u]

C21_ForwardedContext == [][C21_ContextStep]_vars

\* The report of user u holds no field and its history no turn.
Fresh(u) ==
    /\ \A f \in Fields : application[u][f] = None
    /\ ai_history[u] = << >>

\* C22: a session that is in ChoosingMode, entered by /start or by the
\* 'back' choice of AdminMenu, has a report with location, participants,
\* damage, injuries and contact unset and an empty history: nothing of an
\* earlier session of the user is carried over.
C22_FreshContext == \A u \in Users : state[u] = CHOOSING_MODE => Fresh(u)

\* C22 witness: the second start() of user 7, made by the 'back' choice of
\* AdminMenu, has left the session in ChoosingMode with a fresh context.
C22_Witness ==
    /\ last.user = 7
    /\ last.handler = "admin_menu_handler"
    /\ last.text = BTN_BACK
    /\ state[7] = CHOOSING_MODE
    /\ application[7].timestamp = 2
    /\ Fresh(7)

\* C23: the timestamp of the report is set when the session starts, and no
\* turn of a session under way, the turns of the admin states among them,
\* changes it.
C23_TimestampStep ==
    \A u \in Reporters :
        (last'.user = u /\ state[u] \in NonTerminal)
        => application'[u].timestamp = application[u].timestamp

C23_TimestampImmutable == [][C23_TimestampStep]_vars

\* C24: whatever the sessions do in whatever order, an add or a removal that
\* is written never leaves a roster that held an entry empty: no removal
\* that is written takes the stored roster from one entry to none.
C24_RosterStep ==
    \A u \in Users :
        ( /\ last'.replies # << >>
          /\ \/ /\ TurnOf(u, "admin_add_handler")
                /\ last'.replies[1] = "added"
             \/ /\ TurnOf(u, "admin_remove_handler")
                /\ last'.replies[1] = "removed" )
        => (admins_txt # << >> => admins_txt' # << >>)

C24_RosterNeverEmptied == [][C24_RosterStep]_vars

====
